---- MODULE Spec2Model ----
(***************************************************************************)
(* The Reactor of rust/react/src/lib.rs: input cells, compute cells, the   *)
(* reverse dependency index and the per-cell callback registries, with one *)
(* action per public method.                                               *)
(***************************************************************************)
EXTENDS Integers, Sequences, FiniteSets, TLC

\* The cell numbers one run issues: Reactor.id (usize in the source) stays
\* within them. Four cells hold the diamond X, A = f(X), B = g(X), C = h(A, B).
CellNums == 1..4
\* Cap on the input cells one run creates, which it creates first.
MaxInputs == 2
\* The callbacks one run registers, counted over all cells (the CallbackEntry.id
\* counters, summed): two callbacks on one cell, or one on each of two cells.
CallbackNums == 1..2

\* The value type T (Copy + PartialEq): a two-element type.
Vals == {0, 1}

\* The compute closures handed to create_compute, by name.
\* "prod" multiplies its arguments and "succ" adds one to their sum, both
\* within T: over {0, 1} they are the identity and AND, and NOT and XNOR.
Funcs == {"prod", "succ"}

\* A closure of two arguments whose result depends on their order:
\* |v| if v[0] < v[1] { 1 } else { 0 }. It is handed over with slices of two
\* input cells.
PairFuncs == {"less"}

RECURSIVE SeqSum(_)
SeqSum(s) == IF s = <<>> THEN 0 ELSE Head(s) + SeqSum(Tail(s))

RECURSIVE SeqProd(_)
SeqProd(s) == IF s = <<>> THEN 1 ELSE Head(s) * SeqProd(Tail(s))

\* func(&values): the closure named f applied to the slice args.
Apply(f, args) ==
    IF f = "prod" THEN SeqProd(args) % Cardinality(Vals)
    ELSE IF f = "succ" THEN (SeqSum(args) + 1) % Cardinality(Vals)
    ELSE IF args[1] < args[2] THEN 1 ELSE 0

\* enum CellId { Input(InputCellId), Compute(ComputeCellId) }
Input(n) == [kind |-> "Input", id |-> n]
Compute(n) == [kind |-> "Compute", id |-> n]

\* Option<T>: Some(v) is the one-element sequence, None the empty one.
Some(v) == <<v>>
None == <<>>

VARIABLES
    id,             \* Reactor.id
    input_cells,    \* Reactor.input_cells: usize -> T
    compute_cells,  \* Reactor.compute_cells: usize -> ComputeCell
    callbacks,      \* Reactor.callbacks: ComputeCellId -> CallbackEntry
    dependencies,   \* Reactor.dependencies: CellId -> Vec<CellId>
    ret,            \* the last call: its method, its return value, and the arguments
                    \* of a create_input (the initial value), a create_compute (the
                    \* slice, and the closure in func), a set_value (the input) or
                    \* a remove_callback (the cell and the callback)
    fired,          \* the callback invocations of the last call, in order
    log,            \* what the last call did, in order: <<"store", input, value>>,
                    \* <<"eval", cell>> for a call of a compute closure,
                    \* <<"write", cell, value>> for a cached value assigned and
                    \* <<"call", invocation>> for a callback invoked
    removed         \* the <<cell, callback>> pairs remove_callback returned Ok for

vars == <<id, input_cells, compute_cells, callbacks, dependencies, ret, fired, log, removed>>

\* The empty HashMap.
EmptyMap == [x \in {} |-> 0]

----------------------------------------------------------------------------
(* Reading values *)

RECURSIVE get_value(_, _, _), DepValues(_, _, _), DepValues_prepend(_, _, _)

\* DepValues as it would be if the fold were [input, new_vec].concat().
DepValues_prepend(deps, ic, cc) ==
    IF deps = <<>> THEN <<>>
    ELSE LET cell_id == Head(deps)
             cells == IF cell_id.kind = "Input" THEN ic ELSE cc
             input == IF cell_id.id \in DOMAIN cells
                         THEN <<get_value(cell_id, ic, cc)>>
                         ELSE <<>>
         IN  DepValues_prepend(Tail(deps), ic, cc) \o input

\* The fold of Cell::get_value over compute_cell.dependencies: the values of
\* the dependencies found in the store their CellId variant selects.
DepValues(deps, ic, cc) ==
    IF deps = <<>> THEN <<>>
    ELSE LET cell_id == Head(deps)
             cells == IF cell_id.kind = "Input" THEN ic ELSE cc
             input == IF cell_id.id \in DOMAIN cells
                         THEN <<get_value(cell_id, ic, cc)>>
                         ELSE <<>>
         IN  input \o DepValues(Tail(deps), ic, cc)

\* Cell::get_value of the cell stored under cell_id: an input's stored value,
\* a compute cell's function applied to its dependencies' get_value.
get_value(cell_id, ic, cc) ==
    IF cell_id.kind = "Input" THEN ic[cell_id.id]
    ELSE LET compute_cell == cc[cell_id.id]
         IN  Apply(compute_cell.func, DepValues(compute_cell.dependencies, ic, cc))

\* Reactor::value
value(cell_id, ic, cc) ==
    IF cell_id.kind = "Input"
        THEN IF cell_id.id \in DOMAIN ic THEN Some(get_value(cell_id, ic, cc)) ELSE None
        ELSE IF cell_id.id \in DOMAIN cc THEN Some(get_value(cell_id, ic, cc)) ELSE None

RECURSIVE get_cells_values(_, _, _)
\* Reactor::get_cells_values: filter_map of value over the dependencies.
get_cells_values(deps, ic, cc) ==
    IF deps = <<>> THEN <<>>
    ELSE value(Head(deps), ic, cc) \o get_cells_values(Tail(deps), ic, cc)

RECURSIVE get_value_evals(_, _, _), DepEvals(_, _, _)

\* The closure calls of the fold of Cell::get_value, in order.
DepEvals(deps, ic, cc) ==
    IF deps = <<>> THEN <<>>
    ELSE LET cell_id == Head(deps)
             cells == IF cell_id.kind = "Input" THEN ic ELSE cc
             input == IF cell_id.id \in DOMAIN cells
                         THEN get_value_evals(cell_id, ic, cc)
                         ELSE <<>>
         IN  input \o DepEvals(Tail(deps), ic, cc)

\* The closure calls Cell::get_value makes, in order: none for an input
\* cell; for a compute cell those of its dependencies' get_value, then its own
\* func(&input_vec).
get_value_evals(cell_id, ic, cc) ==
    IF cell_id.kind = "Input" THEN <<>>
    ELSE DepEvals(cc[cell_id.id].dependencies, ic, cc) \o << <<"eval", cell_id.id>> >>

\* The closure calls Reactor::value makes.
value_evals(cell_id, ic, cc) ==
    IF value(cell_id, ic, cc) = None THEN <<>> ELSE get_value_evals(cell_id, ic, cc)

RECURSIVE get_cells_values_evals(_, _, _)
\* The closure calls Reactor::get_cells_values makes.
get_cells_values_evals(deps, ic, cc) ==
    IF deps = <<>> THEN <<>>
    ELSE value_evals(Head(deps), ic, cc) \o get_cells_values_evals(Tail(deps), ic, cc)

\* Reactor::check_if_compute_cell_exist
check_if_compute_cell_exist(cell) == cell \in DOMAIN compute_cells

----------------------------------------------------------------------------
(* Propagation *)

\* new_value_of as it would be if the dependents were recomputed before the
\* input cell is overwritten.
new_value_of_before_write(cell, ic, cc) ==
    Apply(cell.func, get_cells_values(cell.dependencies, input_cells, cc))

\* new_value_of as it would be if the dependencies' cached values were read
\* in place of value().
new_value_of_cached(cell, ic, cc) ==
    Apply(cell.func,
          [i \in 1..Len(cell.dependencies) |->
              IF cell.dependencies[i].kind = "Input"
                THEN ic[cell.dependencies[i].id]
                ELSE cc[cell.dependencies[i].id].value])

\* new_value_of as it would be if the first dependency were read in the
\* place of every dependency.
new_value_of_first(cell, ic, cc) ==
    Apply(cell.func,
          get_cells_values([i \in 1..Len(cell.dependencies) |-> cell.dependencies[1]],
                           ic, cc))

\* The value update_dependencies computes for a dependent compute cell.
new_value_of(cell, ic, cc) ==
    Apply(cell.func, get_cells_values(cell.dependencies, ic, cc))

\* changed.insert(ComputeCellId(id), compute_cell.value): a later insert for
\* the same key replaces the earlier one.
changed_insert(ch, c, v) == [k \in DOMAIN ch \cup {c} |-> IF k = c THEN v ELSE ch[k]]

RECURSIVE update_dependencies(_, _, _), update_loop(_, _, _)

\* update_dependencies as it would be if only the dependents of the written
\* input were recomputed, and not theirs in turn.
update_dependencies_direct(cell_id, ic, st) ==
    IF cell_id \in DOMAIN dependencies /\ cell_id.kind = "Input"
        THEN update_loop(dependencies[cell_id], ic, st)
        ELSE st

\* Reactor::update_dependencies on cell_id; st holds the compute store, the
\* `changed` map and the log of the call so far.
update_dependencies(cell_id, ic, st) ==
    IF cell_id \in DOMAIN dependencies
        THEN update_loop(dependencies[cell_id], ic, st)
        ELSE st

\* All orders in which a HashMap can iterate over the keys S.
Orders(S) ==
    {s \in [1..Cardinality(S) -> S] : \A i, j \in 1..Cardinality(S) : i # j => s[i] # s[j]}

\* The registered callback ids of a compute cell.
registered(reg, c) == IF c \in DOMAIN reg THEN reg[c].callbacks ELSE {}

\* update_loop as it would be if the callbacks of a cell were invoked as soon
\* as its cached value is assigned.
update_loop_notify(compute_cell_ids, ic, st) ==
    IF compute_cell_ids = <<>> THEN st
    ELSE LET compute_cell_id == Head(compute_cell_ids)
             c == compute_cell_id.id
         IN  IF c \notin DOMAIN st.cc
               THEN update_loop(Tail(compute_cell_ids), ic, st)
               ELSE LET cell == st.cc[c]
                        new_value == new_value_of(cell, ic, st.cc)
                        evals == get_cells_values_evals(cell.dependencies, ic, st.cc)
                                   \o << <<"eval", c>> >>
                        cbs == CHOOSE o \in Orders(registered(callbacks, c)) : TRUE
                        calls == [i \in 1..Len(cbs) |->
                                    <<"call", [cell |-> c, cb |-> cbs[i], value |-> new_value]>>]
                    IN  IF new_value = cell.value
                          THEN update_loop(Tail(compute_cell_ids), ic,
                                 [st EXCEPT !.log = @ \o evals])
                          ELSE update_loop(Tail(compute_cell_ids), ic,
                                 update_dependencies(compute_cell_id, ic,
                                   [cc |-> [st.cc EXCEPT ![c].value = new_value],
                                    changed |-> st.changed,
                                    log |-> st.log \o evals
                                              \o << <<"write", c, new_value>> >> \o calls]))

\* The for loop of update_dependencies over compute_cell_ids.clone().
update_loop(compute_cell_ids, ic, st) ==
    IF compute_cell_ids = <<>> THEN st
    ELSE LET compute_cell_id == Head(compute_cell_ids)
             c == compute_cell_id.id
         IN  IF c \notin DOMAIN st.cc
               THEN update_loop(Tail(compute_cell_ids), ic, st)
               ELSE LET cell == st.cc[c]
                        new_value == new_value_of(cell, ic, st.cc)
                        evals == get_cells_values_evals(cell.dependencies, ic, st.cc)
                                   \o << <<"eval", c>> >>
                    IN  IF new_value = cell.value
                          THEN update_loop(Tail(compute_cell_ids), ic,
                                 [st EXCEPT !.log = @ \o evals])
                          ELSE update_loop(Tail(compute_cell_ids), ic,
                                 update_dependencies(compute_cell_id, ic,
                                   [cc |-> [st.cc EXCEPT ![c].value = new_value],
                                    changed |-> changed_insert(st.changed, c, cell.value),
                                    log |-> st.log \o evals \o << <<"write", c, new_value>> >>]))

\* cell_calls as it would be if func(*prev_value) were called.
cell_calls_prev(computed_cell_id, prev_value, cbs, ic, cc, reg) ==
    LET v == value(Compute(computed_cell_id), ic, cc)
    IN  IF v = None THEN <<>>
        ELSE IF v[1] = prev_value THEN <<>>
        ELSE IF computed_cell_id \notin DOMAIN reg THEN <<>>
        ELSE [i \in 1..Len(cbs) |->
                [cell |-> computed_cell_id, cb |-> cbs[i], value |-> prev_value]]

\* The invocations run_callbacks makes for one entry of `changed`, the
\* registry of that cell iterated in the order cbs.
cell_calls(computed_cell_id, prev_value, cbs, ic, cc, reg) ==
    LET v == value(Compute(computed_cell_id), ic, cc)
    IN  IF v = None THEN <<>>
        ELSE IF v[1] = prev_value THEN <<>>
        ELSE IF computed_cell_id \notin DOMAIN reg THEN <<>>
        ELSE [i \in 1..Len(cbs) |-> [cell |-> computed_cell_id, cb |-> cbs[i], value |-> v[1]]]

RECURSIVE run_in_order(_, _, _, _, _, _)
\* run_callbacks with `changed` iterated in the order cells and each registry
\* in the order cborder gives it: for each entry the closure calls of
\* self.value, then the callbacks invoked.
run_in_order(cells, cborder, ch, ic, cc, reg) ==
    IF cells = <<>> THEN <<>>
    ELSE LET calls == cell_calls(Head(cells), ch[Head(cells)], cborder[Head(cells)],
                                 ic, cc, reg)
         IN  value_evals(Compute(Head(cells)), ic, cc)
             \o [i \in 1..Len(calls) |-> <<"call", calls[i]>>]
             \o run_in_order(Tail(cells), cborder, ch, ic, cc, reg)

\* The callback invocations among the events evs, in order.
Calls(evs) ==
    LET IsCall(e) == e[1] = "call"
        calls == SelectSeq(evs, IsCall)
    IN  [i \in 1..Len(calls) |-> calls[i][2]]

\* run_callbacks as it would be if it invoked the callbacks of every
\* registry, whether or not the cell is in `changed`.
run_callbacks_all(ch, ic, cc, reg) ==
    LET all == [c \in DOMAIN reg |-> IF c \in DOMAIN ch THEN ch[c] ELSE cc[c].value + 1]
    IN  {run_in_order(cells, cborder, all, ic, cc, reg) :
            cells \in Orders(DOMAIN all),
            cborder \in {f \in [DOMAIN all -> UNION {Orders(registered(reg, c)) : c \in DOMAIN all}] :
                            \A c \in DOMAIN all : f[c] \in Orders(registered(reg, c))}}

\* Reactor::run_callbacks: the sequences of events it can make; the two
\* HashMap iterations take any order.
run_callbacks(ch, ic, cc, reg) ==
    {run_in_order(cells, cborder, ch, ic, cc, reg) :
        cells \in Orders(DOMAIN ch),
        cborder \in {f \in [DOMAIN ch -> UNION {Orders(registered(reg, c)) : c \in DOMAIN ch}] :
                        \A c \in DOMAIN ch : f[c] \in Orders(registered(reg, c))}}

----------------------------------------------------------------------------
(* The public methods *)

Init ==
    /\ id = 0
    /\ input_cells = EmptyMap
    /\ compute_cells = EmptyMap
    /\ callbacks = EmptyMap
    /\ dependencies = EmptyMap
    /\ ret = [op |-> "new", arg |-> <<>>, result |-> <<>>]
    /\ fired = <<>>
    /\ log = <<>>
    /\ removed = {}

\* Reactor::create_input
create_input(initial) ==
    /\ id' = id + 1
    /\ input_cells' = [k \in DOMAIN input_cells \cup {id + 1} |->
                          IF k = id + 1 THEN initial ELSE input_cells[k]]
    /\ ret' = [op |-> "create_input", arg |-> <<initial>>, result |-> Input(id + 1)]
    /\ fired' = <<>>
    /\ log' = <<>>
    /\ UNCHANGED <<compute_cells, callbacks, dependencies, removed>>

RECURSIVE last_missing(_, _, _)
\* first_missing as it would be if the loop kept the last missing dependency.
last_missing(deps, ic, cc) ==
    IF deps = <<>> THEN None
    ELSE IF last_missing(Tail(deps), ic, cc) # None THEN last_missing(Tail(deps), ic, cc)
    ELSE IF value(Head(deps), ic, cc) = None THEN Some(Head(deps))
    ELSE None

RECURSIVE first_missing(_, _, _)
\* The validation loop of create_compute: the first dependency whose value
\* is None, or None when every dependency resolves.
first_missing(deps, ic, cc) ==
    IF deps = <<>> THEN None
    ELSE IF value(Head(deps), ic, cc) = None THEN Some(Head(deps))
    ELSE first_missing(Tail(deps), ic, cc)

RECURSIVE register_dependent(_, _, _)
\* The closing loop of create_compute: push the new cell onto the entry of
\* each dependency, creating the entry when absent.
register_dependent(deps, index, compute_cell_id) ==
    IF deps = <<>> THEN index
    ELSE LET cell_id == Head(deps)
             pushed == IF cell_id \in DOMAIN index
                          THEN Append(index[cell_id], Compute(compute_cell_id))
                          ELSE <<Compute(compute_cell_id)>>
         IN  register_dependent(Tail(deps),
                [k \in DOMAIN index \cup {cell_id} |-> IF k = cell_id THEN pushed ELSE index[k]],
                compute_cell_id)

\* create_compute as it would be if self.id += 1 came before the validation.
create_compute_count_first(deps, compute_func) ==
    LET missing == first_missing(deps, input_cells, compute_cells)
    IN  IF missing # None
          THEN /\ ret' = [op |-> "create_compute", arg |-> deps, func |-> compute_func,
                          result |-> [ok |-> FALSE, cell |-> missing[1]]]
               /\ fired' = <<>>
               /\ log' = <<>>
               /\ id' = id + 1
               /\ UNCHANGED <<input_cells, compute_cells, callbacks, dependencies, removed>>
          ELSE LET values == get_cells_values(deps, input_cells, compute_cells)
                   compute_cell == [dependencies |-> deps,
                                    func |-> compute_func,
                                    value |-> Apply(compute_func, values)]
               IN  /\ id' = id + 1
                   /\ compute_cells' = [k \in DOMAIN compute_cells \cup {id + 1} |->
                                           IF k = id + 1 THEN compute_cell ELSE compute_cells[k]]
                   /\ dependencies' = register_dependent(deps, dependencies, id + 1)
                   /\ ret' = [op |-> "create_compute", arg |-> deps, func |-> compute_func,
                              result |-> [ok |-> TRUE, cell |-> Compute(id + 1)]]
                   /\ fired' = <<>>
                   /\ log' = <<>>
                   /\ UNCHANGED <<input_cells, callbacks, removed>>

\* create_compute as it would be if compute cells were numbered by a counter
\* of their own.
create_compute_own_counter(deps, compute_func) ==
    LET missing == first_missing(deps, input_cells, compute_cells)
    IN  IF missing # None
          THEN /\ ret' = [op |-> "create_compute", arg |-> deps, func |-> compute_func,
                          result |-> [ok |-> FALSE, cell |-> missing[1]]]
               /\ fired' = <<>>
               /\ log' = <<>>
               /\ UNCHANGED <<id, input_cells, compute_cells, callbacks, dependencies, removed>>
          ELSE LET values == get_cells_values(deps, input_cells, compute_cells)
                   compute_cell == [dependencies |-> deps,
                                    func |-> compute_func,
                                    value |-> Apply(compute_func, values)]
                   own == Cardinality(DOMAIN compute_cells) + 1
               IN  /\ id' = id + 1
                   /\ compute_cells' = [k \in DOMAIN compute_cells \cup {own} |->
                                           IF k = own THEN compute_cell ELSE compute_cells[k]]
                   /\ dependencies' = register_dependent(deps, dependencies, own)
                   /\ ret' = [op |-> "create_compute", arg |-> deps, func |-> compute_func,
                              result |-> [ok |-> TRUE, cell |-> Compute(own)]]
                   /\ fired' = <<>>
                   /\ log' = <<>>
                   /\ UNCHANGED <<input_cells, callbacks, removed>>

\* create_compute as it would be without the validation loop.
create_compute_unchecked(deps, compute_func) ==
    LET values == get_cells_values(deps, input_cells, compute_cells)
        compute_cell == [dependencies |-> deps,
                         func |-> compute_func,
                         value |-> Apply(compute_func, values)]
    IN  /\ id' = id + 1
        /\ compute_cells' = [k \in DOMAIN compute_cells \cup {id + 1} |->
                                IF k = id + 1 THEN compute_cell ELSE compute_cells[k]]
        /\ dependencies' = register_dependent(deps, dependencies, id + 1)
        /\ ret' = [op |-> "create_compute", arg |-> deps, func |-> compute_func,
                   result |-> [ok |-> TRUE, cell |-> Compute(id + 1)]]
        /\ fired' = <<>>
        /\ log' = <<>>
        /\ UNCHANGED <<input_cells, callbacks, removed>>

\* Reactor::create_compute
create_compute(deps, compute_func) ==
    LET missing == first_missing(deps, input_cells, compute_cells)
    IN  IF missing # None
          THEN /\ ret' = [op |-> "create_compute", arg |-> deps, func |-> compute_func,
                          result |-> [ok |-> FALSE, cell |-> missing[1]]]
               /\ fired' = <<>>
               /\ log' = <<>>
               /\ UNCHANGED <<id, input_cells, compute_cells, callbacks, dependencies, removed>>
          ELSE LET values == get_cells_values(deps, input_cells, compute_cells)
                   compute_cell == [dependencies |-> deps,
                                    func |-> compute_func,
                                    value |-> Apply(compute_func, values)]
               IN  /\ id' = id + 1
                   /\ compute_cells' = [k \in DOMAIN compute_cells \cup {id + 1} |->
                                           IF k = id + 1 THEN compute_cell ELSE compute_cells[k]]
                   /\ dependencies' = register_dependent(deps, dependencies, id + 1)
                   /\ ret' = [op |-> "create_compute", arg |-> deps, func |-> compute_func,
                              result |-> [ok |-> TRUE, cell |-> Compute(id + 1)]]
                   /\ fired' = <<>>
                   /\ log' = <<>>
                   /\ UNCHANGED <<input_cells, callbacks, removed>>

\* set_value as it would be if the input were stored with insert, which
\* creates the entry when the number names no input cell.
set_value_insert(cell, new_value) ==
    LET ic == [k \in DOMAIN input_cells \cup {cell} |->
                  IF k = cell THEN new_value ELSE input_cells[k]]
    IN  \E st \in {update_dependencies(Input(cell), ic,
                      [cc |-> compute_cells, changed |-> EmptyMap,
                       log |-> << <<"store", cell, new_value>> >>])} :
          /\ input_cells' = ic
          /\ compute_cells' = st.cc
          /\ \E evs \in run_callbacks(st.changed, ic, st.cc, callbacks) :
                /\ fired' = Calls(evs)
                /\ log' = st.log \o evs
          /\ ret' = [op |-> "set_value", arg |-> <<cell>>, result |-> TRUE]
          /\ UNCHANGED <<id, callbacks, dependencies, removed>>

\* Reactor::set_value
set_value(cell, new_value) ==
    IF cell \in DOMAIN input_cells
      THEN LET ic == [input_cells EXCEPT ![cell] = new_value]
           \* st: the compute store, `changed` and the log when
           \* update_dependencies returns.
           IN  \E st \in {update_dependencies(Input(cell), ic,
                             [cc |-> compute_cells, changed |-> EmptyMap,
                              log |-> << <<"store", cell, new_value>> >>])} :
                 /\ input_cells' = ic
                 /\ compute_cells' = st.cc
                 /\ \E evs \in run_callbacks(st.changed, ic, st.cc, callbacks) :
                       /\ fired' = Calls(evs)
                       /\ log' = st.log \o evs
                 /\ ret' = [op |-> "set_value", arg |-> <<cell>>, result |-> TRUE]
                 /\ UNCHANGED <<id, callbacks, dependencies, removed>>
      ELSE /\ ret' = [op |-> "set_value", arg |-> <<cell>>, result |-> FALSE]
           /\ fired' = <<>>
           /\ log' = <<>>
           /\ UNCHANGED <<id, input_cells, compute_cells, callbacks, dependencies, removed>>

RECURSIVE SetSum(_, _)
SetSum(f, S) == IF S = {} THEN 0 ELSE LET x == CHOOSE y \in S : TRUE IN f[x] + SetSum(f, S \ {x})

\* The callback ids issued so far, over all compute cells.
issued(reg) == SetSum([c \in DOMAIN reg |-> reg[c].id], DOMAIN reg)

\* add_callback as it would be if the next id were the size of the registry
\* plus one.
add_callback_len(cell) ==
    IF ~check_if_compute_cell_exist(cell)
      THEN /\ ret' = [op |-> "add_callback", arg |-> <<>>, result |-> None]
           /\ fired' = <<>>
           /\ log' = <<>>
           /\ UNCHANGED <<id, input_cells, compute_cells, callbacks, dependencies, removed>>
      ELSE LET callback_entry == IF cell \in DOMAIN callbacks
                                    THEN callbacks[cell]
                                    ELSE [id |-> 0, callbacks |-> {}]
               callback_id == Cardinality(callback_entry.callbacks) + 1
               entry == [id |-> callback_entry.id + 1,
                         callbacks |-> callback_entry.callbacks \cup {callback_id}]
           IN  /\ callbacks' = [k \in DOMAIN callbacks \cup {cell} |->
                                   IF k = cell THEN entry ELSE callbacks[k]]
               /\ ret' = [op |-> "add_callback", arg |-> <<>>, result |-> Some(callback_id)]
               /\ fired' = <<>>
               /\ log' = <<>>
               /\ UNCHANGED <<id, input_cells, compute_cells, dependencies, removed>>

\* Reactor::add_callback
add_callback(cell) ==
    IF ~check_if_compute_cell_exist(cell)
      THEN /\ ret' = [op |-> "add_callback", arg |-> <<>>, result |-> None]
           /\ fired' = <<>>
           /\ log' = <<>>
           /\ UNCHANGED <<id, input_cells, compute_cells, callbacks, dependencies, removed>>
      ELSE LET callback_entry == IF cell \in DOMAIN callbacks
                                    THEN callbacks[cell]
                                    ELSE [id |-> 0, callbacks |-> {}]
               callback_id == callback_entry.id + 1
               entry == [id |-> callback_id,
                         callbacks |-> callback_entry.callbacks \cup {callback_id}]
           IN  /\ callbacks' = [k \in DOMAIN callbacks \cup {cell} |->
                                   IF k = cell THEN entry ELSE callbacks[k]]
               /\ ret' = [op |-> "add_callback", arg |-> <<>>, result |-> Some(callback_id)]
               /\ fired' = <<>>
               /\ log' = <<>>
               /\ UNCHANGED <<id, input_cells, compute_cells, dependencies, removed>>

\* remove_callback as it would be if it reported Ok and left the closure in
\* the registry.
remove_callback_keep(cell, callback) ==
    LET err == IF ~check_if_compute_cell_exist(cell) THEN "NonexistentCell"
               ELSE IF cell \notin DOMAIN callbacks THEN "NonexistentCallback"
               ELSE IF callback \notin callbacks[cell].callbacks THEN "NonexistentCallback"
               ELSE "Ok"
    IN  /\ ret' = [op |-> "remove_callback", arg |-> <<cell, callback>>, result |-> err]
        /\ fired' = <<>>
        /\ log' = <<>>
        /\ removed' = IF err = "Ok" THEN removed \cup {<<cell, callback>>} ELSE removed
        /\ UNCHANGED <<id, input_cells, compute_cells, callbacks, dependencies>>

\* remove_callback as it would be if a compute cell without a registry were
\* reported as NonexistentCell.
remove_callback_one_error(cell, callback) ==
    LET err == IF ~check_if_compute_cell_exist(cell) THEN "NonexistentCell"
               ELSE IF cell \notin DOMAIN callbacks THEN "NonexistentCell"
               ELSE IF callback \notin callbacks[cell].callbacks THEN "NonexistentCallback"
               ELSE "Ok"
    IN  /\ ret' = [op |-> "remove_callback", arg |-> <<cell, callback>>, result |-> err]
        /\ fired' = <<>>
        /\ log' = <<>>
        /\ IF err = "Ok"
             THEN /\ callbacks' = [callbacks EXCEPT ![cell].callbacks = @ \ {callback}]
                  /\ removed' = removed \cup {<<cell, callback>>}
             ELSE UNCHANGED <<callbacks, removed>>
        /\ UNCHANGED <<id, input_cells, compute_cells, dependencies>>

\* Reactor::remove_callback
remove_callback(cell, callback) ==
    LET err == IF ~check_if_compute_cell_exist(cell) THEN "NonexistentCell"
               ELSE IF cell \notin DOMAIN callbacks THEN "NonexistentCallback"
               ELSE IF callback \notin callbacks[cell].callbacks THEN "NonexistentCallback"
               ELSE "Ok"
    IN  /\ ret' = [op |-> "remove_callback", arg |-> <<cell, callback>>, result |-> err]
        /\ fired' = <<>>
        /\ log' = <<>>
        /\ IF err = "Ok"
             THEN /\ callbacks' = [callbacks EXCEPT ![cell].callbacks = @ \ {callback}]
                  /\ removed' = removed \cup {<<cell, callback>>}
             ELSE UNCHANGED <<callbacks, removed>>
        /\ UNCHANGED <<id, input_cells, compute_cells, dependencies>>

----------------------------------------------------------------------------
(* The calls a client makes *)

\* The CellId a client holds for the existing cell numbered n.
cell_id_of(n) == IF n \in DOMAIN input_cells THEN Input(n) ELSE Compute(n)

\* The two most recently created cells.
Recent == {cell_id_of(n) : n \in {id - 1, id} \cap (1..id)}

\* CellIds that resolve to no cell: one never issued here, and the number of
\* the latest cell under the other variant (an id of another reactor).
Missing ==
    {Compute(id + 1)} \cup
    {IF n \in DOMAIN input_cells THEN Compute(n) ELSE Input(n) : n \in {id} \cap (1..id)}

\* The dependency slices passed to create_compute that resolve: one or two
\* recent cells in creation order.
ValidDeps ==
    {<<a>> : a \in Recent} \cup {<<a, b>> \in Recent \X Recent : a.id < b.id}

\* Slices with a CellId that does not resolve: alone, in first place, in
\* second place and in both places.
InvalidDeps ==
    {<<a>> : a \in Missing}
    \cup {<<a, b>> \in Missing \X Missing : a # b}
    \cup {<<cell_id_of(n), Compute(id + 1)>> : n \in {id} \cap (1..id)}
    \cup {<<Compute(id + 1), cell_id_of(n)>> : n \in {id} \cap (1..id)}

\* Numbers that name no input cell: one never issued, and the latest cell
\* when it is a compute cell.
NoInput == {id + 1} \cup ({id} \cap DOMAIN compute_cells)

\* Numbers that name no compute cell: one never issued, and the latest cell
\* when it is an input cell.
NoCompute == {id + 1} \cup ({id} \cap DOMAIN input_cells)

\* The callback ids a client passes for a compute cell: the ids issued on it
\* and the next one, never issued.
CallbackArgs(cell) == 1..(IF cell \in DOMAIN callbacks THEN callbacks[cell].id + 1 ELSE 1)

CreateInput ==
    \E initial \in Vals :
        /\ id < MaxInputs
        /\ id + 1 \in CellNums
        /\ create_input(initial)

CreateCompute ==
    \/ \E deps \in ValidDeps, f \in Funcs \cup PairFuncs :
          /\ id + 1 \in CellNums
          /\ f \in PairFuncs =>
                (Len(deps) = 2 /\ deps[1].kind = "Input" /\ deps[2].kind = "Input")
          /\ create_compute(deps, f)
    \/ \E deps \in InvalidDeps : create_compute(deps, "prod")

SetValue ==
    \/ \E cell \in DOMAIN input_cells, v \in Vals : set_value(cell, v)
    \/ \E cell \in NoInput : set_value(cell, 0)

AddCallback ==
    \/ \E cell \in DOMAIN compute_cells :
          /\ issued(callbacks) + 1 \in CallbackNums
          /\ add_callback(cell)
    \/ \E cell \in NoCompute : add_callback(cell)

RemoveCallback ==
    \E cell \in DOMAIN compute_cells \cup {id + 1} :
        \E cb \in CallbackArgs(cell) : remove_callback(cell, cb)

Next ==
    \/ CreateInput
    \/ CreateCompute
    \/ SetValue
    \/ AddCallback
    \/ RemoveCallback

Spec == Init /\ [][Next]_vars

----------------------------------------------------------------------------
(* Properties *)

\* The cell numbers in use.
Cells == DOMAIN input_cells \cup DOMAIN compute_cells

\* The value a cell holds in its store: an input's value, a compute cell's
\* cached value field.
stored(cell_id, ic, cc) ==
    IF cell_id.kind = "Input" THEN ic[cell_id.id] ELSE cc[cell_id.id].value

\* The stored values of a dependency list, in declaration order.
stored_values(deps, ic, cc) == [i \in 1..Len(deps) |-> stored(deps[i], ic, cc)]

\* The last call was a set_value that found its input.
Wrote == ret.op = "set_value" /\ ret.result = TRUE

\* The number of invocations of callback cb of cell c in the sequence calls.
Invocations(calls, c, cb) ==
    Cardinality({i \in 1..Len(calls) : calls[i].cell = c /\ calls[i].cb = cb})

\* x, a, b, c form the diamond: a and b read the input x, c reads a and b.
Diamond(x, a, b, c) ==
    /\ x \in DOMAIN input_cells
    /\ {a, b, c} \subseteq DOMAIN compute_cells
    /\ a # b
    /\ compute_cells[a].dependencies = <<Input(x)>>
    /\ compute_cells[b].dependencies = <<Input(x)>>
    /\ compute_cells[c].dependencies = <<Compute(a), Compute(b)>>

\* C1: in a diamond X, A = f(X), B = g(X), C = h(A, B), whatever writes came
\* before, value(C) and the value cached in C are h(f(v), g(v)) for the value
\* v that X holds: never a result of a stale A or a stale B.
C1_DiamondSettled ==
    \A x, a, b, c \in CellNums :
        Diamond(x, a, b, c) =>
            LET v == input_cells[x]
                fv == Apply(compute_cells[a].func, <<v>>)
                gv == Apply(compute_cells[b].func, <<v>>)
                hv == Apply(compute_cells[c].func, <<fv, gv>>)
            IN  /\ value(Compute(c), input_cells, compute_cells) = Some(hv)
                /\ compute_cells[c].value = hv

\* A write to X went through a diamond and changed C: the callback on C ran.
C1_Witness ==
    /\ Wrote
    /\ \E x, a, b, c \in CellNums :
          /\ Diamond(x, a, b, c)
          /\ ret.arg = <<x>>
          /\ \E i \in 1..Len(fired) : fired[i].cell = c

\* C2: after every call, each compute cell's cached value is its function
\* applied to the values its dependencies hold now.
C2_ReferentialConsistency ==
    \A c \in DOMAIN compute_cells :
        compute_cells[c].value =
            Apply(compute_cells[c].func,
                  stored_values(compute_cells[c].dependencies, input_cells, compute_cells))

\* A write changed a cell a and left its dependent-of-the-input d unchanged
\* (the callback of a ran, that of d did not), and a cell c reads d alone.
C2_Witness ==
    /\ Wrote
    /\ \E a, d, c \in DOMAIN compute_cells :
          /\ Input(ret.arg[1]) \in {compute_cells[d].dependencies[i] :
                                     i \in 1..Len(compute_cells[d].dependencies)}
          /\ registered(callbacks, d) # {}
          /\ \A i \in 1..Len(fired) : fired[i].cell # d
          /\ \E i \in 1..Len(fired) : fired[i].cell = a
          /\ compute_cells[c].dependencies = <<Compute(d)>>

\* The calls a set_value step may make on the callbacks registered before it.
FiresOncePerChange ==
    (ret'.op = "set_value" /\ ret'.result = TRUE) =>
        /\ \A i \in 1..Len(fired') : fired'[i].cb \in registered(callbacks, fired'[i].cell)
        /\ \A c \in DOMAIN compute_cells :
             \A cb \in registered(callbacks, c) :
                Invocations(fired', c, cb) =
                    IF value(Compute(c), input_cells', compute_cells')
                         # value(Compute(c), input_cells, compute_cells)
                      THEN 1 ELSE 0

\* C3: a set_value on an existing input invokes each callback registered on a
\* compute cell exactly once if the cell's value after the call differs from
\* its value before it, and not at all otherwise.
C3_FireOnce == [][FiresOncePerChange]_vars

\* A write reached c along two paths (from the input, and through a) and the
\* callback on c ran once; a second callback, on a cell d that reads c and
\* kept its value, did not run.
C3_Witness ==
    /\ Wrote
    /\ \E a, c, d \in DOMAIN compute_cells :
          /\ compute_cells[a].dependencies = <<Input(ret.arg[1])>>
          /\ compute_cells[c].dependencies = <<Input(ret.arg[1]), Compute(a)>>
          /\ registered(callbacks, c) # {}
          /\ \A cb \in registered(callbacks, c) : Invocations(fired, c, cb) = 1
          /\ Compute(c) \in {compute_cells[d].dependencies[k] :
                                  k \in 1..Len(compute_cells[d].dependencies)}
          /\ registered(callbacks, d) # {}
          /\ \A cb \in registered(callbacks, d) : Invocations(fired, d, cb) = 0

\* C4: every callback invocation of a set_value passes the value that
\* value(CellId::Compute(cell)) returns once the call has returned, which is
\* the value the cell then caches.
C4_FinalValue ==
    Wrote =>
        \A i \in 1..Len(fired) :
            /\ Some(fired[i].value) = value(Compute(fired[i].cell), input_cells, compute_cells)
            /\ fired[i].value = compute_cells[fired[i].cell].value

\* Callbacks ran on two cells, one of them reading the other.
C4_Witness ==
    /\ Wrote
    /\ \E i, j \in 1..Len(fired) :
          Compute(fired[i].cell) \in
              {compute_cells[fired[j].cell].dependencies[k] :
                  k \in 1..Len(compute_cells[fired[j].cell].dependencies)}

\* What a set_value step may do with the callbacks of a cell that had one
\* removed: the removed ones stay silent, the others run if the cell changed.
RemovedStaySilent ==
    (ret'.op = "set_value" /\ ret'.result = TRUE) =>
        /\ \A i \in 1..Len(fired') : <<fired'[i].cell, fired'[i].cb>> \notin removed
        /\ \A c \in DOMAIN compute_cells :
             ((\E cb \in CallbackNums : <<c, cb>> \in removed)
                /\ value(Compute(c), input_cells', compute_cells')
                     # value(Compute(c), input_cells, compute_cells))
             => \A cb \in registered(callbacks, c) : Invocations(fired', c, cb) = 1

\* C5: once remove_callback(cell, id) has returned Ok, no set_value invokes
\* that callback again, and the callbacks still registered on the cell are
\* invoked when the cell changes.
C5_RemovedNeverFire == [][RemovedStaySilent]_vars

\* A cell with one callback removed and one still registered changed, and the
\* registered one ran.
C5_Witness ==
    /\ Wrote
    /\ \E c \in DOMAIN compute_cells, r, l \in CallbackNums :
          /\ <<c, r>> \in removed
          /\ l \in registered(callbacks, c)
          /\ Invocations(fired, c, l) = 1

\* A set_value step returns whether its argument names an input cell, and one
\* that returns false changes no part of the reactor and invokes nothing.
SetValueReturn ==
    ret'.op = "set_value" =>
        /\ ret'.result = (ret'.arg[1] \in DOMAIN input_cells)
        /\ ret'.result = FALSE =>
             /\ fired' = <<>>
             /\ log' = <<>>
             /\ UNCHANGED <<id, input_cells, compute_cells, callbacks, dependencies>>

\* C6: set_value on an identifier that names no input cell returns false and
\* changes nothing; on an existing input it returns true, whatever the value.
C6_SetValueUnknown == [][SetValueReturn]_vars

\* set_value was refused for the number of a compute cell that has a
\* callback registered.
C6_Witness ==
    /\ ret.op = "set_value"
    /\ ret.result = FALSE
    /\ ret.arg[1] \in DOMAIN compute_cells
    /\ registered(callbacks, ret.arg[1]) # {}

\* The places of a dependency slice whose CellId resolves to no cell.
missing_places(deps) ==
    {i \in 1..Len(deps) : value(deps[i], input_cells, compute_cells) = None}

\* C7: create_compute returns Err exactly when some dependency resolves to no
\* cell, and the Err carries the first such dependency of the slice.
C7_FirstMissing ==
    ret.op = "create_compute" =>
        IF missing_places(ret.arg) = {}
          THEN ret.result.ok = TRUE
          ELSE /\ ret.result.ok = FALSE
               /\ \E i \in missing_places(ret.arg) :
                     /\ ret.result.cell = ret.arg[i]
                     /\ \A j \in missing_places(ret.arg) : i <= j

\* create_compute was refused for a slice whose two dependencies are both
\* missing and differ.
C7_Witness ==
    /\ ret.op = "create_compute"
    /\ ret.result.ok = FALSE
    /\ missing_places(ret.arg) = {1, 2}
    /\ ret.arg[1] # ret.arg[2]
    /\ Cells # {}

\* A create_compute step that returns Err changes no part of the reactor; one
\* that returns Ok issues the number after the counter.
CreateComputeFrame ==
    ret'.op = "create_compute" =>
        IF ret'.result.ok
          THEN ret'.result.cell = Compute(id + 1)
          ELSE UNCHANGED <<id, input_cells, compute_cells, callbacks, dependencies>>

\* C8: a failed create_compute leaves the input store, the compute store,
\* the dependency index, the callback registries and the id counter as they
\* were, so the next cell created gets the identifier it would have got.
C8_FailedCreateFrame == [][CreateComputeFrame]_vars

\* create_compute was refused, its first dependency existing, in a reactor
\* that holds cells, dependency entries and callbacks.
C8_Witness ==
    /\ ret.op = "create_compute"
    /\ ret.result.ok = FALSE
    /\ missing_places(ret.arg) = {2}
    /\ DOMAIN dependencies # {}
    /\ DOMAIN callbacks # {}

\* A set_value step that stores the value the input already holds invokes
\* nothing and leaves every compute cell, cached and as value returns it.
SameValueWrite ==
    (/\ ret'.op = "set_value"
     /\ ret'.result = TRUE
     /\ input_cells'[ret'.arg[1]] = input_cells[ret'.arg[1]]) =>
        /\ fired' = <<>>
        /\ compute_cells' = compute_cells
        /\ \A c \in DOMAIN compute_cells :
              value(Compute(c), input_cells', compute_cells')
                = value(Compute(c), input_cells, compute_cells)

\* C9: set_value(input, v) with v the value the input holds invokes no
\* callback and changes the value of no compute cell.
C9_SameValueIdempotent == [][SameValueWrite]_vars

\* A write left silent the callback of a cell that reads the written input
\* alone, whose value follows every change of the input.
C9_Witness ==
    /\ Wrote
    /\ fired = <<>>
    /\ \E c \in DOMAIN compute_cells :
          /\ compute_cells[c].dependencies = <<Input(ret.arg[1])>>
          /\ registered(callbacks, c) # {}

\* A step adds at most one cell; its number is the counter after the step
\* and exceeds the counter, and every number, issued before it.
IssuesIncreasing ==
    /\ id' >= id
    /\ \A n \in (DOMAIN input_cells' \cup DOMAIN compute_cells') \ Cells :
          /\ n = id'
          /\ n > id
          /\ \A m \in Cells : n > m

\* The two stores share no number and hold the numbers issued so far.
StoresDisjoint ==
    /\ DOMAIN input_cells \cap DOMAIN compute_cells = {}
    /\ Cells = 1..id

\* C10: cell identifiers come from one strictly increasing counter: no two
\* cells of either kind share a number, and each new cell's number exceeds
\* every number issued before it.
C10_SharedCounter == []StoresDisjoint /\ [][IssuesIncreasing]_vars

\* A compute cell was created last, after a refused create_compute or not,
\* in a reactor that holds input cells and other compute cells.
C10_Witness ==
    /\ ret.op = "create_compute"
    /\ ret.result.ok = TRUE
    /\ DOMAIN input_cells # {}
    /\ Cardinality(DOMAIN compute_cells) > 1
    /\ ret.result.cell.id = id

\* The callback ids issued so far on compute cell c: those registered and
\* those removed.
Ever(c) == registered(callbacks, c) \cup {p[2] : p \in {q \in removed : q[1] = c}}

\* The ids issued on a cell are 1, 2, ..., with no gap.
IssuedFromOne == \A c \in DOMAIN compute_cells : Ever(c) = 1..Cardinality(Ever(c))

\* A successful add_callback returns, for the cell whose registry it extends,
\* the number of ids issued on that cell so far plus one, an id never issued
\* on it, and touches no other registry.
AddIssuesNext ==
    (ret'.op = "add_callback" /\ ret'.result # None) =>
        \E c \in DOMAIN compute_cells :
            /\ ret'.result = Some(Cardinality(Ever(c)) + 1)
            /\ ret'.result[1] \notin Ever(c)
            /\ registered(callbacks', c) = registered(callbacks, c) \cup {ret'.result[1]}
            /\ \A d \in DOMAIN compute_cells \ {c} :
                  registered(callbacks', d) = registered(callbacks, d)

\* C11: callback ids come from a counter of the compute cell that starts at 1
\* and never goes back: the k-th successful add_callback on a cell returns k,
\* whatever was added to other cells or removed in between, and no id is
\* issued twice on one cell.
C11_PerCellCounter == []IssuedFromOne /\ [][AddIssuesNext]_vars

\* add_callback returned 2 on a cell whose callback 1 had been removed.
C11_Witness ==
    /\ ret.op = "add_callback"
    /\ ret.result = Some(2)
    /\ \E c \in DOMAIN compute_cells :
          /\ <<c, 1>> \in removed
          /\ registered(callbacks, c) = {2}

\* What a remove_callback(cell, callback) step returns and changes.
RemoveCallbackReturn ==
    ret'.op = "remove_callback" =>
        LET cell == ret'.arg[1]
            callback == ret'.arg[2]
        IN  /\ ret'.result \in {"Ok", "NonexistentCell", "NonexistentCallback"}
            /\ ret'.result = "NonexistentCell" <=> cell \notin DOMAIN compute_cells
            /\ ret'.result = "NonexistentCallback" <=>
                  /\ cell \in DOMAIN compute_cells
                  /\ \/ cell \notin DOMAIN callbacks
                     \/ callback \notin registered(callbacks, cell)
            /\ <<cell, callback>> \in removed => ret'.result = "NonexistentCallback"
            /\ ret'.result # "Ok" => callbacks' = callbacks
            /\ ret'.result = "Ok" =>
                  /\ callback \in registered(callbacks, cell)
                  /\ registered(callbacks', cell) = registered(callbacks, cell) \ {callback}
                  /\ \A d \in DOMAIN compute_cells \ {cell} :
                        registered(callbacks', d) = registered(callbacks, d)

\* C12: remove_callback returns NonexistentCell exactly for an unknown
\* compute cell and NonexistentCallback exactly for an existing compute cell
\* that has no registry or whose registry lacks the id, as on a second removal;
\* a failure leaves every registry as it was, and Ok removes that one callback.
C12_RemoveCallbackErrors == [][RemoveCallbackReturn]_vars

\* A callback that had been removed was removed again, from a cell that
\* still holds another callback.
C12_Witness ==
    /\ ret.op = "remove_callback"
    /\ ret.result = "NonexistentCallback"
    /\ <<ret.arg[1], ret.arg[2]>> \in removed
    /\ registered(callbacks, ret.arg[1]) # {}

\* value(id) is None for every CellId whose number is no key of the store its
\* variant selects: a number never issued, or one issued to the other kind.
UnknownIsNone ==
    \A n \in 0..(id + 1) :
        /\ n \notin DOMAIN input_cells => value(Input(n), input_cells, compute_cells) = None
        /\ n \notin DOMAIN compute_cells => value(Compute(n), input_cells, compute_cells) = None

\* value() of the cell a create call returns, read right after the call: the
\* initial value of an input cell, and for a compute cell the closure applied
\* to the values of the slice's cells in the order of the slice.
FreshValue ==
    /\ ret'.op = "create_input" =>
          value(ret'.result, input_cells', compute_cells') = Some(ret'.arg[1])
    /\ (ret'.op = "create_compute" /\ ret'.result.ok) =>
          value(ret'.result.cell, input_cells', compute_cells')
            = Some(Apply(ret'.func,
                         [i \in 1..Len(ret'.arg) |->
                             value(ret'.arg[i], input_cells, compute_cells)[1]]))

\* C13: after any creations and writes, value on a freshly created input cell
\* is its initial value, value on a freshly created compute cell is its
\* function applied to the current values of its dependencies in declaration
\* order, and value on a CellId naming no cell of its kind is None.
C13_FreshValue == []UnknownIsNone /\ [][FreshValue]_vars

\* A compute cell was created with the order-sensitive closure over two
\* cells whose values are 0 and 1 in that order.
C13_Witness ==
    /\ ret.op = "create_compute"
    /\ ret.result.ok
    /\ ret.func = "less"
    /\ value(ret.arg[1], input_cells, compute_cells) = Some(0)
    /\ value(ret.arg[2], input_cells, compute_cells) = Some(1)
    /\ value(ret.result.cell, input_cells, compute_cells) = Some(1)

\* The sequences of invocations set_value(cell, new_value) can make from the
\* current state.
Outcomes(cell, new_value) ==
    LET ic == [input_cells EXCEPT ![cell] = new_value]
        st == update_dependencies(Input(cell), ic,
                 [cc |-> compute_cells, changed |-> EmptyMap, log |-> <<>>])
    IN  {Calls(evs) : evs \in run_callbacks(st.changed, ic, st.cc, callbacks)}

\* C14: the order of callback invocations is determined by the graph and the
\* operations made so far: every set_value has one sequence of invocations
\* it can make, the same in every run, both across the changed cells and
\* among the callbacks of one cell.
C14_DeterministicOrder ==
    \A cell \in DOMAIN input_cells, new_value \in Vals :
        Cardinality(Outcomes(cell, new_value)) = 1

\* The compute cells the dependency index lists under cell_id.
Dependents(cell_id) ==
    IF cell_id \in DOMAIN dependencies
      THEN {dependencies[cell_id][i].id : i \in DOMAIN dependencies[cell_id]}
      ELSE {}

RECURSIVE Reachable(_)
\* The compute cells reachable from those of S through the dependency index.
Reachable(S) ==
    LET next == S \cup UNION {Dependents(Compute(c)) : c \in S}
    IN  IF next = S THEN S ELSE Reachable(next)

\* The affected set of a write to input x.
Affected(x) == Reachable(Dependents(Input(x)))

\* How often the closure of compute cell c was called in the events evs.
Evals(evs, c) == Cardinality({i \in 1..Len(evs) : evs[i] = <<"eval", c>>})

\* The places in evs where the cached value of compute cell c was assigned.
WritesOf(evs, c) == {i \in 1..Len(evs) : evs[i][1] = "write" /\ evs[i][2] = c}

\* C16: during one set_value on an existing input, each compute cell reachable
\* from the input through the dependency index is recomputed exactly once:
\* its closure is called once and its cached value is assigned once, however
\* many paths lead from the input to the cell. (Read generously: a cell
\* whose value the write leaves as it was may keep its cached value
\* unassigned, which no read can tell from assigning the same value.)
C16_RecomputedOnce ==
    Wrote =>
        \A c \in Affected(ret.arg[1]) :
            /\ Evals(log, c) = 1
            /\ Cardinality(WritesOf(log, c)) <= 1

\* The compute cells among the dependencies of compute cell c.
ComputeDeps(c) ==
    {compute_cells[c].dependencies[k].id :
        k \in {j \in DOMAIN compute_cells[c].dependencies :
                  compute_cells[c].dependencies[j].kind = "Compute"}}

\* C17: propagation takes the affected set in a topological order: a compute
\* cell's cached value is assigned only after each of its dependencies in
\* the affected set holds its final value for this write, so that no
\* dependency is assigned after the cell (in the diamond, C after A and B).
C17_TopologicalOrder ==
    Wrote =>
        \A c \in Affected(ret.arg[1]) :
            \A d \in ComputeDeps(c) \cap Affected(ret.arg[1]) :
                \A i \in WritesOf(log, c), j \in WritesOf(log, d) : j < i

\* The cached value of compute cell c when the event at place i of evs
\* happens, given the value final it holds when the call returns: Some(final),
\* or None for a cell assigned at i or later, which still holds another value.
CachedAt(evs, i, c, final) ==
    IF \E j \in WritesOf(evs, c) : j >= i THEN None ELSE Some(final)

\* C18: within one set_value no callback is invoked before propagation has
\* ended for the whole write: at every invocation the input holds its new
\* value, every compute cell's cached value is its settled value for this
\* write, and no cached value is assigned after the first invocation.
C18_CallbacksAfterPropagation ==
    Wrote =>
        \A i \in {k \in 1..Len(log) : log[k][1] = "call"} :
            /\ \E j \in 1..(i - 1) :
                  log[j] = <<"store", ret.arg[1], input_cells[ret.arg[1]]>>
            /\ \A c \in DOMAIN compute_cells :
                  CachedAt(log, i, c, compute_cells[c].value)
                    = value(Compute(c), input_cells, compute_cells)
            /\ \A j \in (i + 1)..Len(log) : log[j][1] # "write"

\* A write assigned two cached values and then invoked the callback of the
\* cell it had assigned first.
C18_Witness ==
    /\ Wrote
    /\ \E i, j, k \in 1..Len(log) :
          /\ i < j /\ j < k
          /\ log[i][1] = "write"
          /\ log[j][1] = "write"
          /\ log[k][1] = "call"
          /\ log[k][2].cell = log[i][2]

\* What a set_value(x, v) step that finds its input leaves as it was.
SetValueFrame ==
    (ret'.op = "set_value" /\ ret'.result = TRUE) =>
        LET x == ret'.arg[1]
        IN  /\ DOMAIN input_cells' = DOMAIN input_cells
            /\ \A y \in DOMAIN input_cells \ {x} : input_cells'[y] = input_cells[y]
            /\ DOMAIN compute_cells' = DOMAIN compute_cells
            /\ \A c \in DOMAIN compute_cells \ Affected(x) :
                  /\ compute_cells'[c] = compute_cells[c]
                  /\ WritesOf(log', c) = {}
            /\ \A c \in DOMAIN compute_cells :
                  /\ compute_cells'[c].dependencies = compute_cells[c].dependencies
                  /\ compute_cells'[c].func = compute_cells[c].func
            /\ dependencies' = dependencies
            /\ \A i \in 1..Len(fired') : fired'[i].cell \in Affected(x)

\* C19: set_value on input X leaves untouched what is not reachable from X:
\* the stored values of the other inputs, the cached values of the compute
\* cells that do not depend on X, the dependency index and every dependency
\* list; and it invokes no callback of a compute cell unreachable from X.
C19_SetValueFrame == [][SetValueFrame]_vars

\* A write to one of two inputs invoked a callback while a compute cell that
\* does not depend on the written input holds a callback too.
C19_Witness ==
    /\ Wrote
    /\ fired # <<>>
    /\ DOMAIN input_cells # {ret.arg[1]}
    /\ \E u \in DOMAIN compute_cells \ Affected(ret.arg[1]) :
          registered(callbacks, u) # {}

\* cell_id is a key of the store its variant selects.
Exists(cell_id) ==
    cell_id.id \in DOMAIN (IF cell_id.kind = "Input" THEN input_cells ELSE compute_cells)

\* C20: the dependency graph is acyclic in every reachable state: each
\* dependency of each compute cell names an existing cell with a smaller
\* number than the compute cell's own, so no cell depends, directly or through
\* others, on itself or on a cell created after it; and each entry of the
\* dependency index maps an existing cell to compute cells created after it
\* that list it as a dependency.
C20_Acyclic ==
    /\ \A c \in DOMAIN compute_cells :
          \A k \in DOMAIN compute_cells[c].dependencies :
              /\ Exists(compute_cells[c].dependencies[k])
              /\ compute_cells[c].dependencies[k].id < c
    /\ \A cell_id \in DOMAIN dependencies :
          /\ Exists(cell_id)
          /\ \A i \in DOMAIN dependencies[cell_id] :
                /\ dependencies[cell_id][i].kind = "Compute"
                /\ dependencies[cell_id][i].id \in DOMAIN compute_cells
                /\ dependencies[cell_id][i].id > cell_id.id
                /\ \E k \in DOMAIN compute_cells[dependencies[cell_id][i].id].dependencies :
                      compute_cells[dependencies[cell_id][i].id].dependencies[k] = cell_id
    /\ \A c \in DOMAIN compute_cells : c \notin Reachable(Dependents(Compute(c)))

\* create_compute refused a slice naming the cell it was about to create, in
\* a reactor where a compute cell reads another compute cell.
C20_Witness ==
    /\ ret.op = "create_compute"
    /\ ~ret.result.ok
    /\ ret.result.cell = Compute(id + 1)
    /\ \E c \in DOMAIN compute_cells : ComputeDeps(c) # {}

====
